---------------------------- MODULE Spec2Model ----------------------------
(***************************************************************************)
(* Settings resolution (app/config/config.py) and the agent factory       *)
(* (app/core/agent.py) of resume-chatbot.                                  *)
(*                                                                         *)
(* Python objects are modelled by identity: every constructed object is    *)
(* appended to a heap sequence (instances, handles, factories, agents) and *)
(* is referred to by its index; 0 is "no object" (None / unbound).         *)
(* An optional string is a sequence: <<>> is None, <<s>> is the string s.  *)
(***************************************************************************)
EXTENDS Naturals, Sequences, FiniteSets, TLC

(***************************************************************************)
(* Bounds of the model.                                                    *)
(***************************************************************************)
NThreads == 2
MaxFactories == 2
MaxAgents == 2

(***************************************************************************)
(* The configuration sources.  Keys are held in their canonical upper-case *)
(* form: case_sensitive=False makes the lookup case-insensitive.           *)
(***************************************************************************)
KeyModel == "MODEL_NAME"
KeyUrl == "OLLAMA_BASE_URL"
KeyExtra == "DEBUG"

DefaultBaseUrl == "http://localhost:11434/v1"

EnvModelNames == {"", "llama3", "mistral"}
EnvBaseUrls == {"http://gpu-host:11434/v1"}

EmptyMap == [k \in {} |-> ""]

\* os.environ: a mapping from the variables that are set to their values.
Environs == {e \in UNION {[D -> EnvModelNames \cup EnvBaseUrls] : D \in SUBSET {KeyModel, KeyUrl}} : /\ (KeyModel \in DOMAIN e => e[KeyModel] \in EnvModelNames)
                                                                                                       /\ (KeyUrl \in DOMAIN e => e[KeyUrl] \in EnvBaseUrls)}

\* The local .env file: absent or empty, or one of a few contents.  Every
\* non-empty file also carries a key that Settings does not declare.
DotenvFiles == { EmptyMap,
                 [k \in {KeyModel, KeyExtra} |-> IF k = KeyModel THEN "phi3" ELSE "1"],
                 [k \in {KeyUrl, KeyExtra} |-> IF k = KeyUrl THEN "http://dotenv-host:11434/v1" ELSE "1"],
                 [k \in {KeyModel, KeyUrl, KeyExtra} |-> IF k = KeyModel THEN "phi3" ELSE IF k = KeyUrl THEN "http://dotenv-host:11434/v1" ELSE "1"] }

Threads == 1..NThreads

VARIABLES environ, dotenv, instances, cache, settings, factories, handles, agents, main, last, first_ok, had_failure, pc, ret

vars == <<environ, dotenv, instances, cache, settings, factories, handles, agents, main, last, first_ok, had_failure, pc, ret>>

(***************************************************************************)
(* Outcomes of a call: a returned object (value > 0), None (value = 0) or  *)
(* a raised exception.                                                     *)
(***************************************************************************)
NoError == "none"
ValidationError == "ValidationError"

Return(v) == [raised |-> NoError, value |-> v]
Raise(e) == [raised |-> e, value |-> 0]

(***************************************************************************)
(* class Settings(BaseSettings)                                            *)
(***************************************************************************)
\* Mutant: the .env file takes precedence over the process environment.
FieldSource_file_first(key, env, file) == IF key \in DOMAIN file THEN <<file[key]>> ELSE IF key \in DOMAIN env THEN <<env[key]>> ELSE <<>>

\* The value a field is read from: the process environment first, then the
\* .env file; <<>> when neither source has the key.
FieldSource(key, env, file) == IF key \in DOMAIN env THEN <<env[key]>> ELSE IF key \in DOMAIN file THEN <<file[key]>> ELSE <<>>

\* Mutant: MODEL_NAME has a default, the empty string.
Settings_optional_model(env, file) == LET m == FieldSource(KeyModel, env, file)
                                          u == FieldSource(KeyUrl, env, file)
                                      IN [raised |-> NoError,
                                          fields |-> <<[OLLAMA_BASE_URL |-> IF u = <<>> THEN DefaultBaseUrl ELSE u[1],
                                                        MODEL_NAME |-> IF m = <<>> THEN "" ELSE m[1]]>>]

\* Settings(): the validated fields, or a ValidationError when the required
\* MODEL_NAME has no source.  Keys that are no field (extra="ignore") are
\* not looked at.
Settings(env, file) == LET m == FieldSource(KeyModel, env, file)
                           u == FieldSource(KeyUrl, env, file)
                       IN IF m = <<>>
                          THEN [raised |-> ValidationError, fields |-> <<>>]
                          ELSE [raised |-> NoError,
                                fields |-> <<[OLLAMA_BASE_URL |-> IF u = <<>> THEN DefaultBaseUrl ELSE u[1],
                                              MODEL_NAME |-> m[1]]>>]

(***************************************************************************)
(* @lru_cache def get_settings()                                           *)
(* The cache of the wrapper holds at most one entry, for the argument      *)
(* tuple (): the set cache is empty or holds the cached instance's id.     *)
(***************************************************************************)
\* Mutant: a raised exception is stored as the entry (the object 0).
lru_cache_miss_stores_error(c, insts, env, file) == LET s == Settings(env, file)
                                                        id == Len(insts) + 1
                                                    IN IF s.raised # NoError
                                                       THEN [cache |-> {0}, instances |-> insts, read |-> TRUE, out |-> Raise(s.raised)]
                                                       ELSE [cache |-> IF c = {} THEN {id} ELSE c,
                                                             instances |-> Append(insts, s.fields[1]),
                                                             read |-> TRUE,
                                                             out |-> Return(id)]

\* The wrapper on a cache miss: call the wrapped function, Settings(), and
\* store its result.  A raised exception is not stored.  When the key has
\* been added while the function ran (another thread), the entry is kept
\* and this call still returns the object it has just built.
lru_cache_miss(c, insts, env, file) == LET s == Settings(env, file)
                                           id == Len(insts) + 1
                                       IN IF s.raised # NoError
                                          THEN [cache |-> c, instances |-> insts, read |-> TRUE, out |-> Raise(s.raised)]
                                          ELSE [cache |-> IF c = {} THEN {id} ELSE c,
                                                instances |-> Append(insts, s.fields[1]),
                                                read |-> TRUE,
                                                out |-> Return(id)]

\* The wrapper on a hit: the cached object, the sources are not read.
lru_cache_hit(c, insts) == [cache |-> c, instances |-> insts, read |-> FALSE, out |-> Return(CHOOSE i \in c : TRUE)]

\* Mutant: no decorator, every call runs Settings().
get_settings_uncached(c, insts, env, file) == lru_cache_miss({}, insts, env, file)

\* A whole call of get_settings() by one caller.
get_settings(c, insts, env, file) == IF c # {} THEN lru_cache_hit(c, insts) ELSE lru_cache_miss(c, insts, env, file)

\* What the last operation did, as its caller sees it: the operation, its
\* arguments, the exception raised or the object returned.  For a call of
\* get_settings: whether Settings() was run (read), whether an earlier
\* call had succeeded (after_ok) and whether a source held MODEL_NAME when
\* the call was made (had_model).  For a method of a factory: the factory
\* (self).  For test_agent: the run_sync calls made (sent), what the
\* provider answered (reply) and the text of the result (output).
NoCall == [op |-> "none", self |-> 0, arg |-> <<>>, raised |-> NoError, value |-> 0, read |-> FALSE, after_ok |-> FALSE, had_model |-> FALSE, sent |-> <<>>, reply |-> "", output |-> ""]

Init == /\ environ \in Environs
        /\ dotenv \in DotenvFiles
        /\ instances = <<>>
        /\ cache = {}
        /\ settings = 0
        /\ factories = <<>>
        /\ handles = <<>>
        /\ agents = <<>>
        /\ main = [pc |-> "start", factory |-> 0]
        /\ last = NoCall
        /\ first_ok = 0
        /\ had_failure = FALSE
        /\ pc = [t \in Threads |-> "idle"]
        /\ ret = [t \in Threads |-> Return(0)]

SettingsVars == <<instances, cache, settings, first_ok, had_failure>>
FactoryVars == <<factories, handles, agents, main>>
ThreadVars == <<pc, ret>>

(***************************************************************************)
(* The environment of the process: variables are set and removed, the     *)
(* .env file is rewritten.                                                 *)
(***************************************************************************)
SetEnv(k, v) == /\ environ' = [x \in DOMAIN environ \cup {k} |-> IF x = k THEN v ELSE environ[x]]
                /\ environ' # environ
                /\ UNCHANGED <<dotenv, SettingsVars, FactoryVars, ThreadVars, last>>

UnsetEnv(k) == /\ k \in DOMAIN environ
               /\ environ' = [x \in DOMAIN environ \ {k} |-> environ[x]]
               /\ UNCHANGED <<dotenv, SettingsVars, FactoryVars, ThreadVars, last>>

WriteDotenv(f) == /\ f # dotenv
                  /\ dotenv' = f
                  /\ UNCHANGED <<environ, SettingsVars, FactoryVars, ThreadVars, last>>

EnvChange == \/ \E v \in EnvModelNames : SetEnv(KeyModel, v)
             \/ \E v \in EnvBaseUrls : SetEnv(KeyUrl, v)
             \/ \E k \in {KeyModel, KeyUrl} : UnsetEnv(k)
             \/ \E f \in DotenvFiles : WriteDotenv(f)

(***************************************************************************)
(* Calls of get_settings() by a single caller.                             *)
(***************************************************************************)
\* The caller's record of a get_settings() call with result r.
SettingsCall(op, r) == [NoCall EXCEPT !.op = op, !.raised = r.out.raised, !.value = r.out.value,
                                      !.read = r.read, !.after_ok = (first_ok # 0),
                                      !.had_model = (KeyModel \in DOMAIN environ \cup DOMAIN dotenv)]

\* History: the instance the first successful call returned, and whether a
\* call has failed.
Observe(r) == /\ first_ok' = IF first_ok = 0 /\ r.out.raised = NoError THEN r.out.value ELSE first_ok
              /\ had_failure' = (had_failure \/ r.out.raised # NoError)

GetSettings == LET r == get_settings(cache, instances, environ, dotenv)
               IN /\ cache' = r.cache
                  /\ instances' = r.instances
                  /\ last' = SettingsCall("get_settings", r)
                  /\ Observe(r)
                  /\ UNCHANGED <<environ, dotenv, settings, FactoryVars, ThreadVars>>

\* Importing app.core.agent runs `settings = get_settings()`; when the call
\* raises, the import fails and the module (its class included) stays
\* undefined.
ImportAgentModule == LET r == get_settings(cache, instances, environ, dotenv)
                     IN /\ settings = 0
                        /\ cache' = r.cache
                        /\ instances' = r.instances
                        /\ settings' = r.out.value
                        /\ last' = SettingsCall("import", r)
                        /\ Observe(r)
                        /\ UNCHANGED <<environ, dotenv, FactoryVars, ThreadVars>>

(***************************************************************************)
(* Calls of get_settings() by several threads.  A call looks the key up,  *)
(* and on a miss runs Settings() without holding any lock of the cache.    *)
(***************************************************************************)
ThreadCall(t) == /\ pc[t] = "idle"
                 /\ IF cache # {}
                    THEN /\ ret' = [ret EXCEPT ![t] = lru_cache_hit(cache, instances).out]
                         /\ pc' = pc
                    ELSE /\ pc' = [pc EXCEPT ![t] = "Settings"]
                         /\ ret' = [ret EXCEPT ![t] = Return(0)]
                 /\ UNCHANGED <<environ, dotenv, SettingsVars, FactoryVars, last>>

ThreadReturn(t) == LET r == lru_cache_miss(cache, instances, environ, dotenv)
                   IN /\ pc[t] = "Settings"
                      /\ cache' = r.cache
                      /\ instances' = r.instances
                      /\ ret' = [ret EXCEPT ![t] = r.out]
                      /\ pc' = [pc EXCEPT ![t] = "idle"]
                      /\ UNCHANGED <<environ, dotenv, settings, first_ok, had_failure, FactoryVars, last>>

\* The settings layer used by one caller at a time, in an environment that
\* changes between the calls.
NextEnv == \/ EnvChange
           \/ GetSettings
           \/ ImportAgentModule

SpecEnv == Init /\ [][NextEnv]_vars

\* The settings layer used by several threads at once.
NextThreads == \/ EnvChange
               \/ \E t \in Threads : ThreadCall(t)
               \/ \E t \in Threads : ThreadReturn(t)

SpecThreads == Init /\ [][NextThreads]_vars

(***************************************************************************)
(* class AgentFactory                                                      *)
(***************************************************************************)
\* An attribute that has not been assigned.
Unset == "<unset>"

\* What the pydantic-ai constructors OpenAIChatModel and OllamaProvider may
\* do with the arguments they are given: build the client, or raise.
BindOutcomes == {NoError, "UserError"}

\* What the provider may answer to a run: a response, or a failure
\* (endpoint unreachable, timeout, malformed output).
ProviderOk == "ok"
ProviderReplies == {ProviderOk, "ConnectionError", "TimeoutError", "UnexpectedModelBehavior"}
ReplyText == "Hi!"

SystemPrompts == {<<>>, <<"">>, <<"X">>}
Messages == {"Hello"}
ProviderNames == {"gpt-4", "llama3"}

\* Python's truth value of an Optional[str].
Truthy(s) == s # <<>> /\ s[1] # ""

\* _model_init: a new model handle bound to (model_name, base_url), added
\* to the heap hs of handles.
_model_init(self, hs, bind) == IF bind # NoError
                               THEN [raised |-> bind, value |-> 0, handles |-> hs]
                               ELSE [raised |-> NoError, value |-> Len(hs) + 1,
                                     handles |-> Append(hs, [model_name |-> self.model_name, base_url |-> self.ollama_base_url])]

\* Mutant: the exception of _model_init is swallowed, the object is returned
\* without its model.
AgentFactory__init__swallow(s, hs, bind) == LET self0 == [model_name |-> Unset, ollama_base_url |-> Unset, model |-> 0]
                                                self1 == [self0 EXCEPT !.model_name = s.MODEL_NAME]
                                                self2 == [self1 EXCEPT !.ollama_base_url = s.OLLAMA_BASE_URL]
                                                m == _model_init(self2, hs, bind)
                                            IN IF m.raised # NoError
                                               THEN [raised |-> NoError, self |-> self2, handles |-> m.handles]
                                               ELSE [raised |-> NoError, self |-> [self2 EXCEPT !.model = m.value], handles |-> m.handles]

\* __init__: the three assignments in order, on the new object self; s is
\* the module's settings object.  The third raises when _model_init does.
AgentFactory__init__(s, hs, bind) == LET self0 == [model_name |-> Unset, ollama_base_url |-> Unset, model |-> 0]
                                         self1 == [self0 EXCEPT !.model_name = s.MODEL_NAME]
                                         self2 == [self1 EXCEPT !.ollama_base_url = s.OLLAMA_BASE_URL]
                                         m == _model_init(self2, hs, bind)
                                     IN IF m.raised # NoError
                                        THEN [raised |-> m.raised, self |-> self2, handles |-> m.handles]
                                        ELSE [raised |-> NoError, self |-> [self2 EXCEPT !.model = m.value], handles |-> m.handles]

\* Mutant: the agent is given the model's name, not the factory's handle.
create_agent_by_name(self, system_prompt) == IF Truthy(system_prompt)
                                             THEN [model |-> 0, system_prompts |-> <<system_prompt[1]>>]
                                             ELSE [model |-> 0, system_prompts |-> <<>>]

\* Mutant: the test is `system_prompt is not None`.
create_agent_is_not_none(self, system_prompt) == IF system_prompt # <<>>
                                                 THEN [model |-> self.model, system_prompts |-> <<system_prompt[1]>>]
                                                 ELSE [model |-> self.model, system_prompts |-> <<>>]

\* create_agent: the Agent built, holding the factory's model and, for a
\* truthy system_prompt, that prompt.
create_agent(self, system_prompt) == IF Truthy(system_prompt)
                                     THEN [model |-> self.model, system_prompts |-> <<system_prompt[1]>>]
                                     ELSE [model |-> self.model, system_prompts |-> <<>>]

\* Mutant: the stub records the name it is given.
_identify_model_provider_sets_name(self, model_name) == [self |-> [self EXCEPT !.model_name = model_name], out |-> Return(0)]

\* _identify_model_provider: `pass`.
_identify_model_provider(self, model_name) == [self |-> self, out |-> Return(0)]

\* agent.run_sync(user_prompt=message) on the agent with id aid: one
\* request to the provider, whose answer is returned or raised.
run_sync(aid, message, reply) == [sent |-> <<[agent |-> aid, user_prompt |-> message]>>,
                                  raised |-> IF reply = ProviderOk THEN NoError ELSE reply,
                                  value |-> IF reply = ProviderOk THEN aid ELSE 0,
                                  output |-> IF reply = ProviderOk THEN ReplyText ELSE ""]

\* Mutant: a failed run is tried a second time.
test_agent_retry(self, message, system_prompt, aid, reply) == LET agent == create_agent(self, system_prompt)
                                                                  r == run_sync(aid, message, reply)
                                                              IN [agent |-> agent,
                                                                  sent |-> IF r.raised # NoError THEN r.sent \o r.sent ELSE r.sent,
                                                                  raised |-> r.raised, value |-> r.value, output |-> r.output]

\* test_agent: create_agent, then run_sync on the new agent (its id aid).
test_agent(self, message, system_prompt, aid, reply) == LET agent == create_agent(self, system_prompt)
                                                            r == run_sync(aid, message, reply)
                                                        IN [agent |-> agent, sent |-> r.sent, raised |-> r.raised, value |-> r.value, output |-> r.output]

\* An uncaught exception of the script has ended the process.
Running == main.pc # "crashed"

\* AgentFactory(): the new object reaches the caller only when __init__
\* returns.  The class exists once the module has been imported.
Construct(bind, asMain) == LET r == AgentFactory__init__(instances[settings], handles, bind)
                               ok == r.raised = NoError
                           IN /\ settings # 0
                              /\ Len(factories) < MaxFactories
                              /\ handles' = r.handles
                              /\ factories' = IF ok THEN Append(factories, r.self) ELSE factories
                              /\ last' = [NoCall EXCEPT !.op = "AgentFactory", !.raised = r.raised,
                                                        !.value = IF ok THEN Len(factories) + 1 ELSE 0]
                              /\ main' = IF asMain
                                         THEN [pc |-> IF ok THEN "loop" ELSE "crashed", factory |-> IF ok THEN Len(factories) + 1 ELSE 0]
                                         ELSE main
                              /\ UNCHANGED <<environ, dotenv, SettingsVars, agents, ThreadVars>>

NewAgentFactory == /\ Running
                   /\ \E bind \in BindOutcomes : Construct(bind, FALSE)

\* An agent on the heap also records the factory that made it (made_by),
\* which the Python object does not hold.
CreateAgent(f, p) == /\ Running
                     /\ f \in DOMAIN factories
                     /\ Len(agents) < MaxAgents
                     /\ agents' = Append(agents, [made_by |-> f, agent |-> create_agent(factories[f], p)])
                     /\ last' = [NoCall EXCEPT !.op = "create_agent", !.self = f, !.arg = <<p>>, !.value = Len(agents) + 1]
                     /\ UNCHANGED <<environ, dotenv, SettingsVars, factories, handles, main, ThreadVars>>

Test(f, msg, p, reply, asMain) == LET aid == Len(agents) + 1
                                      r == test_agent(factories[f], msg, p, aid, reply)
                                  IN /\ f \in DOMAIN factories
                                     /\ Len(agents) < MaxAgents
                                     /\ agents' = Append(agents, [made_by |-> f, agent |-> r.agent])
                                     /\ last' = [NoCall EXCEPT !.op = "test_agent", !.self = f, !.arg = <<<<msg>>, p>>,
                                                               !.raised = r.raised, !.value = r.value, !.sent = r.sent,
                                                               !.reply = reply, !.output = r.output]
                                     /\ main' = IF asMain /\ r.raised # NoError THEN [main EXCEPT !.pc = "crashed"] ELSE main
                                     /\ UNCHANGED <<environ, dotenv, SettingsVars, factories, handles, ThreadVars>>

TestAgent(f, msg, p) == /\ Running
                        /\ \E reply \in ProviderReplies : Test(f, msg, p, reply, FALSE)

IdentifyModelProvider(f, name) == /\ Running
                                  /\ f \in DOMAIN factories
                                  /\ LET r == _identify_model_provider(factories[f], name)
                                     IN /\ factories' = [factories EXCEPT ![f] = r.self]
                                        /\ last' = [NoCall EXCEPT !.op = "_identify_model_provider", !.self = f, !.arg = <<<<name>>>>,
                                                                  !.raised = r.out.raised, !.value = r.out.value]
                                  /\ UNCHANGED <<environ, dotenv, SettingsVars, handles, agents, main, ThreadVars>>

\* The script: agent = AgentFactory(), then test_agent(input()) for ever.
\* Nothing is caught: an exception ends the process.
MainStart == /\ main.pc = "start"
             /\ \E bind \in BindOutcomes : Construct(bind, TRUE)

MainLoop(msg) == /\ main.pc = "loop"
                 /\ \E reply \in ProviderReplies : Test(main.factory, msg, <<>>, reply, TRUE)

\* The whole program, single-threaded, in the environment the process was
\* started in.
Next == \/ Running /\ GetSettings
        \/ Running /\ ImportAgentModule
        \/ NewAgentFactory
        \/ \E f \in 1..MaxFactories, p \in SystemPrompts : CreateAgent(f, p)
        \/ \E f \in 1..MaxFactories, m \in Messages, p \in SystemPrompts : TestAgent(f, m, p)
        \/ \E f \in 1..MaxFactories, n \in ProviderNames : IdentifyModelProvider(f, n)
        \/ MainStart
        \/ \E m \in Messages : MainLoop(m)

Spec == Init /\ [][Next]_vars

(***************************************************************************)
(* Properties.                                                             *)
(***************************************************************************)
\* The last operation was a call of get_settings(), direct or by the import.
SettingsOps == {"get_settings", "import"}

\* What the configuration sources hold for a key now: the process
\* environment, else the .env file.
Configured(k) == k \in DOMAIN environ \cup DOMAIN dotenv
ConfiguredValue(k) == IF k \in DOMAIN environ THEN environ[k] ELSE dotenv[k]

\* C1 (memoization law): every get_settings() call made after a call has
\* succeeded returns, without raising and without running Settings() again,
\* the very instance the first successful call returned, which is the cached
\* one; that instance and its fields never change, whatever is set, changed
\* or removed in the environment or the .env file between the calls.
C1_Memoization == /\ [](last.op \in SettingsOps /\ last.after_ok
                          => /\ last.raised = NoError
                             /\ last.value = first_ok
                             /\ ~last.read
                             /\ cache = {first_ok})
                  /\ [][first_ok # 0 => /\ first_ok' = first_ok
                                        /\ cache' = cache
                                        /\ first_ok \in DOMAIN instances'
                                        /\ instances'[first_ok] = instances[first_ok]]_vars

\* A later call, made when no source holds MODEL_NAME any more, has returned
\* the first instance.
C1_Witness == /\ last.op = "get_settings"
              /\ last.after_ok
              /\ ~last.had_model
              /\ last.value = first_ok
              /\ KeyUrl \in DOMAIN environ
              /\ instances[first_ok].OLLAMA_BASE_URL = DefaultBaseUrl

\* C10 (a failure is not memoized): a get_settings() call made before any
\* call has succeeded always runs Settings() on the sources as they are at
\* that call, whether or not earlier calls failed: it succeeds when a source
\* holds MODEL_NAME, and its result is then the cached one; it raises and
\* leaves the cache empty when none does.  The cache is filled exactly from
\* the first success on.
C10_FailureNotMemoized == /\ (cache = {} <=> first_ok = 0)
                          /\ (last.op \in SettingsOps /\ ~last.after_ok
                                => /\ last.read
                                   /\ (last.had_model => /\ last.raised = NoError
                                                         /\ last.value # 0
                                                         /\ last.value = first_ok
                                                         /\ cache = {last.value})
                                   /\ (~last.had_model => /\ last.raised = ValidationError
                                                          /\ last.value = 0
                                                          /\ cache = {}))

\* A call has succeeded after an earlier call had failed.
C10_Witness == /\ last.op = "get_settings"
               /\ had_failure
               /\ ~last.after_ok
               /\ last.raised = NoError
               /\ cache = {last.value}

\* C2 (MODEL_NAME is required): in a process whose environment holds a
\* non-empty MODEL_NAME, get_settings() returns a Settings whose MODEL_NAME
\* is that value; in one whose environment holds no MODEL_NAME, it raises
\* the validation error and returns nothing.
C2_ModelNameRequired == last.op \in SettingsOps
                          => /\ (Configured(KeyModel) /\ ConfiguredValue(KeyModel) # ""
                                   => /\ last.raised = NoError
                                      /\ last.value \in DOMAIN instances
                                      /\ instances[last.value].MODEL_NAME = ConfiguredValue(KeyModel))
                             /\ (~Configured(KeyModel)
                                   => /\ last.raised = ValidationError
                                      /\ last.value = 0
                                      /\ instances = <<>>)

\* get_settings() has returned the MODEL_NAME of the process environment,
\* which the .env file gives another value.
C2_Witness == /\ last.op = "get_settings"
              /\ last.raised = NoError
              /\ KeyModel \in DOMAIN environ
              /\ KeyModel \in DOMAIN dotenv
              /\ instances[last.value].MODEL_NAME = "mistral"

\* C3 (base URL and its default): whenever get_settings() succeeds, the
\* OLLAMA_BASE_URL of the Settings is the configured value when one is
\* configured and "http://localhost:11434/v1" when none is.
C3_BaseUrlDefault == last.op \in SettingsOps /\ last.raised = NoError
                       => /\ last.value \in DOMAIN instances
                          /\ instances[last.value].OLLAMA_BASE_URL = IF Configured(KeyUrl) THEN ConfiguredValue(KeyUrl) ELSE "http://localhost:11434/v1"

\* The scenario of the claim: {MODEL_NAME: "llama3"}, OLLAMA_BASE_URL unset.
C3_Witness == /\ last.op = "get_settings"
              /\ DOMAIN environ = {KeyModel}
              /\ environ[KeyModel] = "llama3"
              /\ dotenv = EmptyMap
              /\ last.value \in DOMAIN instances
              /\ instances[last.value] = [OLLAMA_BASE_URL |-> "http://localhost:11434/v1", MODEL_NAME |-> "llama3"]

\* The (model_name, base_url) pair a factory holds.
FactoryPair(f) == [model_name |-> factories[f].model_name, base_url |-> factories[f].ollama_base_url]

\* C4 (one shared model handle): every agent made by create_agent or
\* test_agent holds the handle that is the `model` attribute of the factory
\* that made it, a handle bound to that factory's (model_name, base_url); no
\* handle exists besides the one each factory built when it was constructed.
C4_SharedModelHandle == /\ \A i \in DOMAIN agents :
                              /\ agents[i].made_by \in DOMAIN factories
                              /\ agents[i].agent.model = factories[agents[i].made_by].model
                              /\ agents[i].agent.model \in DOMAIN handles
                              /\ handles[agents[i].agent.model] = FactoryPair(agents[i].made_by)
                        /\ Len(handles) = Len(factories)

\* Two agents of one factory, one from create_agent with a prompt and one
\* from test_agent without, while a second factory exists.
C4_Witness == /\ Len(agents) = 2
              /\ Len(factories) = 2
              /\ agents[1].made_by = 1
              /\ agents[2].made_by = 1
              /\ agents[1].agent.system_prompts = <<"X">>
              /\ agents[2].agent.system_prompts = <<>>
              /\ last.op = "test_agent"

\* C5 (system prompt): create_agent(p) returns a new Agent; for a non-empty
\* string p its system prompt is exactly p, for None and for the empty
\* string it has no system prompt.
C5_SystemPrompt == last.op = "create_agent"
                     => /\ last.raised = NoError
                        /\ last.value = Len(agents)
                        /\ last.value > 0
                        /\ LET p == last.arg[1]
                               a == agents[last.value].agent
                           IN /\ (p # <<>> /\ p[1] # "" => a.system_prompts = <<p[1]>>)
                              /\ (p = <<>> \/ p = <<"">> => a.system_prompts = <<>>)

\* create_agent("") after create_agent("X"): two agents, the first with the
\* prompt and the second without.
C5_Witness == /\ last.op = "create_agent"
              /\ last.arg = <<<<"">>>>
              /\ last.value = 2
              /\ agents[1].agent.system_prompts = <<"X">>
              /\ agents[2].agent.system_prompts = <<>>

\* C6 (one run, failures propagate): test_agent(message, p) makes exactly
\* one run_sync call, on the agent it has just created from p, with message
\* as the user prompt; the provider's response is returned, and the
\* provider's failure is raised to the caller as it is.  In the script, the
\* failure ends the process.
C6_RunOncePropagate == /\ last.op = "test_agent"
                            => /\ last.sent = <<[agent |-> Len(agents), user_prompt |-> last.arg[1][1]]>>
                               /\ agents[Len(agents)].made_by = last.self
                               /\ agents[Len(agents)].agent = create_agent(factories[last.self], last.arg[2])
                               /\ (last.reply = ProviderOk => /\ last.raised = NoError
                                                              /\ last.value = Len(agents)
                                                              /\ last.output = ReplyText)
                               /\ (last.reply # ProviderOk => /\ last.raised = last.reply
                                                              /\ last.value = 0
                                                              /\ last.output = "")
                       /\ (main.pc = "crashed" => last.raised # NoError)

\* The script's test_agent call has raised the provider's timeout.
C6_Witness == /\ last.op = "test_agent"
              /\ last.reply = "TimeoutError"
              /\ last.raised = "TimeoutError"
              /\ last.sent = <<[agent |-> 2, user_prompt |-> "Hello"]>>
              /\ main.pc = "crashed"

\* C7 (construction is all or nothing): every factory a caller holds has
\* its three attributes set, model_name and ollama_base_url from the
\* settings and model a handle bound to them; a construction that raises
\* returns no object and leaves no factory and no handle behind, and without
\* the settings no factory can be constructed at all.
C7_AtomicConstruction == /\ \A f \in DOMAIN factories :
                               /\ settings \in DOMAIN instances
                               /\ factories[f].model_name = instances[settings].MODEL_NAME
                               /\ factories[f].ollama_base_url = instances[settings].OLLAMA_BASE_URL
                               /\ factories[f].model \in DOMAIN handles
                               /\ handles[factories[f].model] = FactoryPair(f)
                         /\ Len(handles) = Len(factories)
                         /\ (last.op = "AgentFactory" /\ last.raised = NoError => last.value = Len(factories) /\ last.value > 0)
                         /\ (last.op = "AgentFactory" /\ last.raised # NoError => last.value = 0)
                         /\ (last.op = "import" /\ last.raised # NoError => settings = 0)
                         /\ (settings = 0 => factories = <<>> /\ handles = <<>>)
                         /\ (main.pc = "loop" => main.factory \in DOMAIN factories)

\* A construction has failed after another had succeeded.
C7_Witness == /\ last.op = "AgentFactory"
              /\ last.raised = "UserError"
              /\ Len(factories) = 1
              /\ Len(handles) = 1
              /\ factories[1].model = 1

IsPrefix(s, t) == Len(s) <= Len(t) /\ \A i \in DOMAIN s : t[i] = s[i]

\* C9 (the handle is built once and never changes): each factory has its own
\* handle, built by its constructor; no step changes a factory or a handle
\* that exists, and create_agent, test_agent and _identify_model_provider
\* add none; _identify_model_provider returns None for every name.
C9_HandleBuiltOnce == /\ [](/\ Len(handles) = Len(factories)
                            /\ \A f \in DOMAIN factories : factories[f].model = f
                            /\ (last.op = "_identify_model_provider" => last.raised = NoError /\ last.value = 0))
                      /\ [][/\ IsPrefix(factories, factories')
                            /\ IsPrefix(handles, handles')
                            /\ (last'.op \in {"create_agent", "test_agent", "_identify_model_provider"}
                                  => factories' = factories /\ handles' = handles)]_vars

\* The stub has been called with "gpt-4" on the second factory, after an
\* agent had been made.
C9_Witness == /\ last.op = "_identify_model_provider"
              /\ last.arg = <<<<"gpt-4">>>>
              /\ last.self = 2
              /\ Len(agents) >= 1

\* C8 (single initialization under concurrent first access): Settings is
\* constructed at most once, and all the threads that called get_settings()
\* hold the same instance.
C8_SingleInitialization == /\ Len(instances) <= 1
                           /\ \A t, u \in Threads : ret[t].value # 0 /\ ret[u].value # 0 => ret[t].value = ret[u].value

=============================================================================
